---- MODULE Spec2Model ----
(***************************************************************************)
(* A model of queue.c: a queue of strings kept as a circular doubly-linked *)
(* list of element_t around a sentinel struct list_head.                   *)
(*                                                                         *)
(* Memory is modelled at the level of the pointer fields: next and prev of *)
(* every list_head, the value pointer of every element_t, and the set of   *)
(* blocks malloc has handed out.  Every function of queue.c is an operator *)
(* on such a heap, written statement by statement, and every public        *)
(* function is one action of the caller.                                   *)
(***************************************************************************)
EXTENDS Integers, Sequences, FiniteSets, TLC

\* Number of addresses an element_t can have.
MaxNodes == 4
\* Under Spec malloc fails once this many elements are live.
MaxLive == 3
\* Largest bufsize a caller passes to q_remove_head / q_remove_tail.
MaxBuf == 3

\* ------------------------------------------------------------------------
\* Addresses.  0 is NULL, 1..MaxNodes are element_t blocks (the address of
\* an element and of its embedded list member are not told apart), QHead is
\* the block q_new allocates, DupList the local list head of q_delete_dup.
\* Undef stands for an indeterminate pointer value.
NULL == 0
Elems == 1 .. MaxNodes
QHead == MaxNodes + 1
DupList == MaxNodes + 2
Undef == MaxNodes + 3
Nodes == Elems \cup {QHead, DupList}

\* Payload strings: the bytes before the terminating 0.  Callers under Spec
\* insert "a" and "ab"; the rings of SpecAlg also hold "b".
Strs == {<<97>>, <<97, 98>>}
AlgStrs == Strs \cup {<<98>>}
\* What a value pointer holds when it points at no live string.
NoValue == <<-1>>

\* size_t arithmetic is modular; SizeBits is the width kept by the model.
SizeBits == 16
SizeMod == 2 ^ SizeBits

VARIABLES
    head,   \* the caller's queue pointer: NULL or QHead
    next,   \* next[n]: the next field of list_head n
    prev,   \* prev[n]: the prev field of list_head n
    value,  \* value[e]: the string element e owns, or NoValue
    alloc,  \* blocks handed out by malloc and not yet freed
    held,   \* elements returned by q_remove_* and not yet released
    fault,  \* memory faults and runaway loops seen so far
    op,     \* the public function called last
    ret,    \* what that call returned
    arg,    \* the string that call was given, if any
    out,    \* the caller's buffer after that call
    pre,    \* the elements of the ring, first to last, before that call
    prevals, \* and the payloads they had
    net,    \* successful inserts minus successful removes on this queue
    pure    \* only insert / remove calls have changed this queue so far

vars == <<head, next, prev, value, alloc, held, fault, op, ret, arg, out, pre, prevals, net, pure>>

heap == [next |-> next, prev |-> prev, value |-> value, alloc |-> alloc, fault |-> fault]

\* Loops are unrolled at most Fuel times; a loop that needs more is recorded
\* as a fault.
Fuel == MaxNodes + 3

\* ------------------------------------------------------------------------
\* Loads and stores through a pointer.
LdNext(hp, p) == IF p \in Nodes THEN hp.next[p] ELSE Undef
LdPrev(hp, p) == IF p \in Nodes THEN hp.prev[p] ELSE Undef
Value(hp, p) == IF p \in Elems THEN hp.value[p] ELSE NoValue

Fault(hp, what) == [hp EXCEPT !.fault = @ \cup {what}]

SetNext(hp, p, v) ==
    IF p \in Nodes THEN [hp EXCEPT !.next[p] = v] ELSE Fault(hp, "bad pointer")
SetPrev(hp, p, v) ==
    IF p \in Nodes THEN [hp EXCEPT !.prev[p] = v] ELSE Fault(hp, "bad pointer")

\* malloc(sizeof(element_t)) / malloc(sizeof(struct list_head)) returning p:
\* the block's fields are indeterminate.
Malloc(hp, p) ==
    [hp EXCEPT !.alloc = @ \cup {p}, !.next[p] = Undef, !.prev[p] = Undef]

\* free(e->value)
FreeValue(hp, e) ==
    IF e \in Elems /\ hp.value[e] # NoValue
    THEN [hp EXCEPT !.value[e] = NoValue]
    ELSE Fault(hp, "double free")

\* free(p) of a block
FreeBlock(hp, p) ==
    IF p \in hp.alloc
    THEN [hp EXCEPT !.alloc = @ \ {p}, !.next[p] = Undef, !.prev[p] = Undef]
    ELSE Fault(hp, "double free")

\* strdup(s): a fresh string holding the bytes of s up to its terminator.
strdup(s) == [i \in 1 .. Len(s) |-> s[i]]

\* strcmp(s, t): the difference of the first bytes that differ, the
\* terminator counting as byte 0.
ByteAt(s, i) == IF i <= Len(s) THEN s[i] ELSE 0
RECURSIVE strcmp_from(_, _, _)
strcmp_from(s, t, i) ==
    IF ByteAt(s, i) # ByteAt(t, i) THEN ByteAt(s, i) - ByteAt(t, i)
    ELSE IF ByteAt(s, i) = 0 THEN 0
    ELSE strcmp_from(s, t, i + 1)
strcmp(s, t) == strcmp_from(s, t, 1)

\* ------------------------------------------------------------------------
\* list.h
INIT_LIST_HEAD(hp, h) == SetPrev(SetNext(hp, h, h), h, h)

list_empty(hp, h) == LdNext(hp, h) = h

list_add(hp, node, h) ==
    LET nx == LdNext(hp, h)
        h1 == SetPrev(hp, nx, node)
        h2 == SetNext(h1, node, nx)
        h3 == SetPrev(h2, node, h)
    IN  SetNext(h3, h, node)

list_add_tail(hp, node, h) ==
    LET pv == LdPrev(hp, h)
        h1 == SetNext(hp, pv, node)
        h2 == SetNext(h1, node, h)
        h3 == SetPrev(h2, node, pv)
    IN  SetPrev(h3, h, node)

\* The unlinked node's own pointers become undefined.
list_del(hp, node) ==
    LET nx == LdNext(hp, node)
        pv == LdPrev(hp, node)
        h1 == SetPrev(hp, nx, pv)
        h2 == SetNext(h1, pv, nx)
    IN  SetPrev(SetNext(h2, node, Undef), node, Undef)

list_move(hp, node, h) == list_add(list_del(hp, node), node, h)

\* The body both q_free and q_delete_dup give list_for_each_entry_safe:
\* free(entry->value); free(entry);
RECURSIVE free_each_entry(_, _, _, _, _)
free_each_entry(hp, h, entry, safe, fuel) ==
    IF entry = h THEN hp
    ELSE IF fuel = 0 THEN Fault(hp, "no termination")
    ELSE LET h1 == FreeValue(hp, entry)
             h2 == FreeBlock(h1, entry)
         IN  free_each_entry(h2, h, safe, LdNext(h2, safe), fuel - 1)

list_for_each_entry_safe_free(hp, h) ==
    free_each_entry(hp, h, LdNext(hp, h), LdNext(hp, LdNext(hp, h)), Fuel)

\* ------------------------------------------------------------------------
\* The ring as the caller sees it.
RECURSIVE Walk(_, _, _, _)
Walk(hp, h, p, fuel) ==
    IF p = h \/ p \notin Nodes \/ fuel = 0 THEN <<>>
    ELSE <<p>> \o Walk(hp, h, hp.next[p], fuel - 1)

RingOf(hp, h) == IF h = NULL THEN <<>> ELSE Walk(hp, h, LdNext(hp, h), Fuel)
Ring == RingOf(heap, head)

Range(s) == {s[i] : i \in 1 .. Len(s)}
Values(hp, s) == [i \in 1 .. Len(s) |-> Value(hp, s[i])]

\* ------------------------------------------------------------------------
\* queue.c

q_new(hp, p) == IF p # NULL THEN INIT_LIST_HEAD(Malloc(hp, p), p) ELSE hp

\* q_free as it would be without the walk over the entries.
q_free_only_head(hp, l) == IF l = NULL THEN hp ELSE FreeBlock(hp, l)

q_free(hp, l) ==
    IF l = NULL THEN hp
    ELSE FreeBlock(list_for_each_entry_safe_free(hp, l), l)

\* q_insert_head as it would be without free(node) when strdup fails.
q_insert_head_no_free(hp, h, s, node, dup_ok) ==
    IF h = NULL THEN [hp |-> hp, ret |-> FALSE]
    ELSE IF node = NULL THEN [hp |-> hp, ret |-> FALSE]
    ELSE LET h1 == Malloc(hp, node)
             h2 == [h1 EXCEPT !.value[node] = IF dup_ok THEN strdup(s) ELSE NoValue]
         IN  IF Value(h2, node) = NoValue
             THEN [hp |-> h2, ret |-> FALSE]
             ELSE [hp |-> list_add(h2, node, h), ret |-> TRUE]

\* node is what malloc returns (NULL: it failed), dup_ok whether strdup
\* finds memory.
q_insert_head(hp, h, s, node, dup_ok) ==
    IF h = NULL THEN [hp |-> hp, ret |-> FALSE]
    ELSE IF node = NULL THEN [hp |-> hp, ret |-> FALSE]
    ELSE LET h1 == Malloc(hp, node)
             h2 == [h1 EXCEPT !.value[node] = IF dup_ok THEN strdup(s) ELSE NoValue]
         IN  IF Value(h2, node) = NoValue
             THEN [hp |-> FreeBlock(h2, node), ret |-> FALSE]
             ELSE [hp |-> list_add(h2, node, h), ret |-> TRUE]

\* q_insert_tail as it would be with the list_add of q_insert_head.
q_insert_tail_adds_head(hp, h, s, node, dup_ok) ==
    IF h = NULL THEN [hp |-> hp, ret |-> FALSE]
    ELSE IF node = NULL THEN [hp |-> hp, ret |-> FALSE]
    ELSE LET h1 == Malloc(hp, node)
             h2 == [h1 EXCEPT !.value[node] = IF dup_ok THEN strdup(s) ELSE NoValue]
         IN  IF Value(h2, node) = NoValue
             THEN [hp |-> FreeBlock(h2, node), ret |-> FALSE]
             ELSE [hp |-> list_add(h2, node, h), ret |-> TRUE]

q_insert_tail(hp, h, s, node, dup_ok) ==
    IF h = NULL THEN [hp |-> hp, ret |-> FALSE]
    ELSE IF node = NULL THEN [hp |-> hp, ret |-> FALSE]
    ELSE LET h1 == Malloc(hp, node)
             h2 == [h1 EXCEPT !.value[node] = IF dup_ok THEN strdup(s) ELSE NoValue]
         IN  IF Value(h2, node) = NoValue
             THEN [hp |-> FreeBlock(h2, node), ret |-> FALSE]
             ELSE [hp |-> list_add_tail(h2, node, h), ret |-> TRUE]

\* The caller's buffer: cap bytes belong to it; a byte not written is -1.
NoOut == [given |-> FALSE, bytes |-> <<>>, oob |-> FALSE]
size_sub(a, b) == (a - b + SizeMod) % SizeMod

\* strncpy(sp, src, n); sp[last] = '\0' on a buffer of cap bytes
copy_out(src, cap, n, last) ==
    [given |-> TRUE,
     bytes |-> [i \in 1 .. cap |->
                  IF i - 1 = last THEN 0
                  ELSE IF i - 1 < n THEN ByteAt(src, i)
                  ELSE -1],
     oob |-> n > cap \/ last >= cap]

\* q_remove_head as it would be with the entry and list_del of
\* q_remove_tail.
q_remove_head_takes_last(hp, h, sp, bufsize) ==
    IF h = NULL \/ list_empty(hp, h)
    THEN [hp |-> hp, ret |-> NULL, out |-> NoOut]
    ELSE LET last_entry == LdPrev(hp, h)
             h1 == list_del(hp, LdPrev(hp, h))
         IN  [hp |-> h1, ret |-> last_entry,
              out |-> IF sp
                      THEN copy_out(Value(h1, last_entry), bufsize,
                                    size_sub(bufsize, 1), size_sub(bufsize, 1))
                      ELSE NoOut]

q_remove_head(hp, h, sp, bufsize) ==
    IF h = NULL \/ list_empty(hp, h)
    THEN [hp |-> hp, ret |-> NULL, out |-> NoOut]
    ELSE LET first_entry == LdNext(hp, h)
             h1 == list_del(hp, LdNext(hp, h))
         IN  [hp |-> h1, ret |-> first_entry,
              out |-> IF sp
                      THEN copy_out(Value(h1, first_entry), bufsize,
                                    size_sub(bufsize, 1), size_sub(bufsize, 1))
                      ELSE NoOut]

\* q_remove_tail as it would be with the list_del of q_remove_head.
q_remove_tail_dels_first(hp, h, sp, bufsize) ==
    IF h = NULL \/ list_empty(hp, h)
    THEN [hp |-> hp, ret |-> NULL, out |-> NoOut]
    ELSE LET last_entry == LdPrev(hp, h)
             h1 == list_del(hp, LdNext(hp, h))
         IN  [hp |-> h1, ret |-> last_entry,
              out |-> IF sp
                      THEN copy_out(Value(h1, last_entry), bufsize,
                                    size_sub(bufsize, 1), size_sub(bufsize, 1))
                      ELSE NoOut]

q_remove_tail(hp, h, sp, bufsize) ==
    IF h = NULL \/ list_empty(hp, h)
    THEN [hp |-> hp, ret |-> NULL, out |-> NoOut]
    ELSE LET last_entry == LdPrev(hp, h)
             h1 == list_del(hp, LdPrev(hp, h))
         IN  [hp |-> h1, ret |-> last_entry,
              out |-> IF sp
                      THEN copy_out(Value(h1, last_entry), bufsize,
                                    size_sub(bufsize, 1), size_sub(bufsize, 1))
                      ELSE NoOut]

q_release_element(hp, e) == FreeBlock(FreeValue(hp, e), e)

RECURSIVE q_size_loop(_, _, _, _, _)
q_size_loop(hp, h, ptr, count, fuel) ==
    IF ptr = h THEN count
    ELSE IF fuel = 0 THEN -1
    ELSE q_size_loop(hp, h, LdNext(hp, ptr), count + 1, fuel - 1)

\* q_size as it would be with the count started at 1.
q_size_from_one(hp, h) ==
    IF h = NULL \/ list_empty(hp, h) THEN 0
    ELSE q_size_loop(hp, h, LdNext(hp, h), 1, Fuel)

q_size(hp, h) ==
    IF h = NULL \/ list_empty(hp, h) THEN 0
    ELSE q_size_loop(hp, h, LdNext(hp, h), 0, Fuel)

\* The loop test as it would be without the test for adjacent pointers.
mid_continue_meet_only(hp, ptr, rev) == rev # ptr

\* The loop of q_delete_mid goes on while this holds.
mid_continue(hp, ptr, rev) == rev # ptr /\ rev # LdNext(hp, ptr)

RECURSIVE mid_loop(_, _, _, _)
mid_loop(hp, ptr, rev, fuel) ==
    IF ~mid_continue(hp, ptr, rev) THEN [hp |-> hp, ptr |-> ptr]
    ELSE IF fuel = 0 THEN [hp |-> Fault(hp, "no termination"), ptr |-> ptr]
    ELSE mid_loop(hp, LdNext(hp, ptr), LdPrev(hp, rev), fuel - 1)

q_delete_mid(hp, h) ==
    IF h = NULL \/ list_empty(hp, h) THEN [hp |-> hp, ret |-> FALSE]
    ELSE LET l == mid_loop(hp, LdNext(hp, h), LdPrev(hp, h), Fuel)
             h1 == list_del(l.hp, l.ptr)
             h2 == FreeValue(h1, l.ptr)
             h3 == FreeBlock(h2, l.ptr)
         IN  [hp |-> h3, ret |-> TRUE]

\* The comparison as it would be if only the first bytes were compared.
dup_same_first_byte(hp, ptr, nxt) ==
    ByteAt(Value(hp, ptr), 1) = ByteAt(Value(hp, nxt), 1)

\* same = !strcmp(ptr->value, next->value)
dup_same(hp, ptr, nxt) == strcmp(Value(hp, ptr), Value(hp, nxt)) = 0

\* The collecting step as it would be without the prev flag.
dup_collect_same_only(hp, ptr, same, prevflag) ==
    IF same THEN list_move(hp, ptr, DupList) ELSE hp

\* if (same || prev) list_move(&ptr->list, &duplist);
dup_collect(hp, ptr, same, prevflag) ==
    IF same \/ prevflag THEN list_move(hp, ptr, DupList) ELSE hp

RECURSIVE dup_loop(_, _, _, _, _, _)
dup_loop(hp, h, prevflag, ptr, nxt, fuel) ==
    IF LdNext(hp, nxt) = h THEN [hp |-> hp, prev |-> prevflag, ptr |-> ptr]
    ELSE IF fuel = 0
    THEN [hp |-> Fault(hp, "no termination"), prev |-> prevflag, ptr |-> ptr]
    ELSE LET nxt1 == LdNext(hp, ptr)
             same == dup_same(hp, ptr, nxt1)
             h1 == dup_collect(hp, ptr, same, prevflag)
         IN  dup_loop(h1, h, same, nxt1, nxt1, fuel - 1)

\* q_delete_dup as it would be without the loop that frees the collected
\* elements.
q_delete_dup_no_free(hp, h) ==
    IF h = NULL THEN [hp |-> hp, ret |-> FALSE]
    ELSE LET h0 == INIT_LIST_HEAD(hp, DupList)
             l == dup_loop(h0, h, FALSE, LdNext(h0, h), LdNext(h0, h), Fuel)
             h1 == IF l.prev THEN list_move(l.hp, l.ptr, DupList) ELSE l.hp
             h3 == SetPrev(SetNext(h1, DupList, Undef), DupList, Undef)
         IN  [hp |-> h3, ret |-> TRUE]

\* duplist lives in the frame of q_delete_dup: it is gone on return.
q_delete_dup(hp, h) ==
    IF h = NULL THEN [hp |-> hp, ret |-> FALSE]
    ELSE LET h0 == INIT_LIST_HEAD(hp, DupList)
             l == dup_loop(h0, h, FALSE, LdNext(h0, h), LdNext(h0, h), Fuel)
             h1 == IF l.prev THEN list_move(l.hp, l.ptr, DupList) ELSE l.hp
             h2 == list_for_each_entry_safe_free(h1, DupList)
             h3 == SetPrev(SetNext(h2, DupList, Undef), DupList, Undef)
         IN  [hp |-> h3, ret |-> TRUE]

\* The exchange as it would be without right->next->prev = left.
swap_pair_five_stores(hp, left, right) ==
    LET h1 == SetNext(hp, LdPrev(hp, left), right)
        h3 == SetNext(h1, left, LdNext(h1, right))
        h4 == SetPrev(h3, right, LdPrev(h3, left))
        h5 == SetPrev(h4, left, right)
    IN  SetNext(h5, right, left)

\* The six stores that exchange left and right.
swap_pair(hp, left, right) ==
    LET h1 == SetNext(hp, LdPrev(hp, left), right)
        h2 == SetPrev(h1, LdNext(h1, right), left)
        h3 == SetNext(h2, left, LdNext(h2, right))
        h4 == SetPrev(h3, right, LdPrev(h3, left))
        h5 == SetPrev(h4, left, right)
    IN  SetNext(h5, right, left)

\* The loop test as it would be without the test of right.
swap_continue_left_only(h, left, right) == left # h

\* while (left != head && right != head)
swap_continue(h, left, right) == left # h /\ right # h

RECURSIVE swap_loop(_, _, _, _, _)
swap_loop(hp, h, left, right, fuel) ==
    LET h1 == swap_pair(hp, left, right)
        left1 == LdNext(h1, left)
        right1 == LdNext(h1, left1)
    IN  IF ~swap_continue(h, left1, right1) THEN h1
        ELSE IF fuel = 0 THEN Fault(h1, "no termination")
        ELSE swap_loop(h1, h, left1, right1, fuel - 1)

\* q_swap as it would be if it exchanged the payloads of each pair and not
\* the nodes.
RECURSIVE swap_values(_, _, _, _)
swap_values(hp, h, left, fuel) ==
    LET right == LdNext(hp, left)
    IN  IF left = h \/ right = h \/ fuel = 0 THEN hp
        ELSE swap_values([hp EXCEPT !.value[left] = hp.value[right],
                                    !.value[right] = hp.value[left]],
                         h, LdNext(hp, right), fuel - 1)
q_swap_by_value(hp, h) ==
    IF h = NULL \/ LdNext(hp, h) = LdPrev(hp, h) THEN hp
    ELSE swap_values(hp, h, LdNext(hp, h), Fuel)

q_swap(hp, h) ==
    IF h = NULL \/ LdNext(hp, h) = LdPrev(hp, h) THEN hp
    ELSE swap_loop(hp, h, LdNext(hp, h), LdNext(hp, LdNext(hp, h)), Fuel)

\* The exchange as it would be without tmp.
reverse_node_no_tmp(hp, ptr) ==
    LET h1 == SetNext(hp, ptr, LdPrev(hp, ptr))
    IN  SetPrev(h1, ptr, LdNext(h1, ptr))

\* tmp = ptr->next; ptr->next = ptr->prev; ptr->prev = tmp;
reverse_node(hp, ptr) ==
    LET tmp == LdNext(hp, ptr)
        h1 == SetNext(hp, ptr, LdPrev(hp, ptr))
    IN  SetPrev(h1, ptr, tmp)

RECURSIVE reverse_loop(_, _, _, _)
reverse_loop(hp, h, ptr, fuel) ==
    LET h1 == reverse_node(hp, ptr)
        ptr1 == LdPrev(h1, ptr)
    IN  IF ptr1 = h THEN h1
        ELSE IF fuel = 0 THEN Fault(h1, "no termination")
        ELSE reverse_loop(h1, h, ptr1, fuel - 1)

\* q_reverse as it would be without the test of head.
q_reverse_no_null_test(hp, h) ==
    IF list_empty(hp, h) THEN hp
    ELSE reverse_loop(hp, h, h, Fuel)

q_reverse(hp, h) ==
    IF h = NULL \/ list_empty(hp, h) THEN hp
    ELSE reverse_loop(hp, h, h, Fuel)

\* for (; flag->next && flag->next->next; flag = flag->next->next) mid = mid->next;
RECURSIVE split_loop(_, _, _, _)
split_loop(hp, mid, flag, fuel) ==
    IF LdNext(hp, flag) # NULL /\ LdNext(hp, LdNext(hp, flag)) # NULL
    THEN IF fuel = 0 THEN [mid |-> mid, done |-> FALSE]
         ELSE split_loop(hp, LdNext(hp, mid), LdNext(hp, LdNext(hp, flag)), fuel - 1)
    ELSE [mid |-> mid, done |-> TRUE]

\* The comparison as it would be with > in place of <.
merge_takes_left_greater(hp, left, right) ==
    strcmp(Value(hp, left), Value(hp, right)) > 0

\* The comparison as it would be if the merge always took the right node.
merge_takes_left_never(hp, left, right) == FALSE

\* next = strcmp(l->value, r->value) < 0 ? &left : &right;
merge_takes_left(hp, left, right) == strcmp(Value(hp, left), Value(hp, right)) < 0

\* phead is the address of a pointer: NULL stands for &new_head, a node p
\* for &p->next.
RECURSIVE merge_loop(_, _, _, _, _, _)
merge_loop(hp, new_head, phead, left, right, fuel) ==
    IF left # NULL /\ right # NULL /\ fuel > 0
    THEN LET tl == merge_takes_left(hp, left, right)
             taken == IF tl THEN left ELSE right
             h1 == IF phead = NULL THEN hp ELSE SetNext(hp, phead, taken)
             new_head1 == IF phead = NULL THEN taken ELSE new_head
             left1 == IF tl THEN LdNext(h1, left) ELSE left
             right1 == IF tl THEN right ELSE LdNext(h1, right)
         IN  merge_loop(h1, new_head1, taken, left1, right1, fuel - 1)
    ELSE LET rest == IF left # NULL THEN left ELSE right
             h0 == IF left # NULL /\ right # NULL
                   THEN Fault(hp, "no termination") ELSE hp
         IN  IF phead = NULL THEN [hp |-> h0, head |-> rest]
             ELSE [hp |-> SetNext(h0, phead, rest), head |-> new_head]

RECURSIVE mergesort(_, _, _, _)
mergesort(hp, start, end, depth) ==
    IF start = end THEN [hp |-> hp, head |-> start]
    ELSE IF depth = 0 THEN [hp |-> Fault(hp, "no termination"), head |-> start]
    ELSE LET s == split_loop(hp, start, start, Fuel)
             mid == s.mid
             h0 == IF s.done THEN hp ELSE Fault(hp, "no termination")
             flag == LdNext(h0, mid)
             h1 == SetNext(h0, mid, NULL)
             left == mergesort(h1, start, mid, depth - 1)
             right == mergesort(left.hp, flag, end, depth - 1)
         IN  merge_loop(right.hp, start, NULL, left.head, right.head, 2 * Fuel)

\* for (end = head; end->next; end = end->next) end->next->prev = end;
RECURSIVE repair_prev(_, _, _)
repair_prev(hp, end, fuel) ==
    IF LdNext(hp, end) # NULL /\ fuel > 0
    THEN repair_prev(SetPrev(hp, LdNext(hp, end), end), LdNext(hp, end), fuel - 1)
    ELSE [hp |-> IF LdNext(hp, end) # NULL THEN Fault(hp, "no termination") ELSE hp,
          end |-> end]

q_sort(hp, h) ==
    IF h = NULL \/ LdPrev(hp, h) = LdNext(hp, h) THEN hp
    ELSE LET start == LdNext(hp, h)
             end == LdPrev(hp, h)
             h1 == SetNext(hp, end, NULL)
             m == mergesort(h1, start, end, Fuel)
             h2 == SetNext(m.hp, h, m.head)
             h3 == SetPrev(h2, LdNext(h2, h), h)
             r == repair_prev(h3, h, Fuel)
             h4 == SetNext(r.hp, r.end, h)
         IN  SetPrev(h4, h, r.end)

\* ------------------------------------------------------------------------
\* The caller: one action per public function.
Void == "void"

Commit(hp) ==
    /\ next' = hp.next
    /\ prev' = hp.prev
    /\ value' = hp.value
    /\ alloc' = hp.alloc
    /\ fault' = hp.fault

Call(name, hp, r, o, s) ==
    /\ Commit(hp)
    /\ op' = name
    /\ ret' = r
    /\ out' = o
    /\ arg' = s
    /\ pre' = Ring
    /\ prevals' = Values(heap, Ring)

\* malloc hands out the first free block, or fails; an insert allocates the
\* element and then the string, and either allocation can fail.
FirstFree ==
    IF Elems \ alloc = {} \/ Cardinality(alloc \cap Elems) >= MaxLive THEN NULL
    ELSE CHOOSE e \in Elems \ alloc : \A f \in Elems \ alloc : e <= f
MallocOutcomes ==
    IF FirstFree = NULL THEN {"no node"} ELSE {"ok", "no node", "no string"}

\* What a caller passes as sp and bufsize: no buffer, or a buffer of bufsize
\* bytes, which has at least the byte the terminator needs.
Buffers ==
    {[sp |-> FALSE, bufsize |-> 0]} \cup [sp : {TRUE}, bufsize : 1 .. MaxBuf]

Init ==
    /\ head = NULL
    /\ next = [n \in Nodes |-> Undef]
    /\ prev = [n \in Nodes |-> Undef]
    /\ value = [e \in Elems |-> NoValue]
    /\ alloc = {}
    /\ held = {}
    /\ fault = {}
    /\ op = "init"
    /\ ret = Void
    /\ out = NoOut
    /\ arg = NoValue
    /\ pre = <<>>
    /\ prevals = <<>>
    /\ net = 0
    /\ pure = TRUE

\* q = q_new(), when the caller has no queue
QNew ==
    /\ head = NULL
    /\ \E p \in {QHead, NULL} :
        /\ Call("q_new", q_new(heap, p), p, NoOut, NoValue)
        /\ head' = p
    /\ net' = 0
    /\ pure' = TRUE
    /\ UNCHANGED held

\* q_free(q); q = NULL
QFree ==
    /\ Call("q_free", q_free(heap, head), Void, NoOut, NoValue)
    /\ head' = NULL
    /\ net' = 0
    /\ pure' = TRUE
    /\ UNCHANGED held

QInsertHead ==
    \E s \in Strs, m \in MallocOutcomes :
        LET node == IF m = "no node" THEN NULL ELSE FirstFree
            dup_ok == m = "ok"
            r == q_insert_head(heap, head, s, node, dup_ok)
        IN  /\ Call("q_insert_head", r.hp, r.ret, NoOut, s)
            /\ net' = IF pure /\ r.ret THEN net + 1 ELSE net
            /\ UNCHANGED <<head, held, pure>>

QInsertTail ==
    \E s \in Strs, m \in MallocOutcomes :
        LET node == IF m = "no node" THEN NULL ELSE FirstFree
            dup_ok == m = "ok"
            r == q_insert_tail(heap, head, s, node, dup_ok)
        IN  /\ Call("q_insert_tail", r.hp, r.ret, NoOut, s)
            /\ net' = IF pure /\ r.ret THEN net + 1 ELSE net
            /\ UNCHANGED <<head, held, pure>>

QRemoveHead ==
    \E b \in Buffers :
        LET r == q_remove_head(heap, head, b.sp, b.bufsize)
        IN  /\ Call("q_remove_head", r.hp, r.ret, r.out, NoValue)
            /\ held' = IF r.ret # NULL THEN held \cup {r.ret} ELSE held
            /\ net' = IF pure /\ r.ret # NULL THEN net - 1 ELSE net
            /\ UNCHANGED <<head, pure>>

QRemoveTail ==
    \E b \in Buffers :
        LET r == q_remove_tail(heap, head, b.sp, b.bufsize)
        IN  /\ Call("q_remove_tail", r.hp, r.ret, r.out, NoValue)
            /\ held' = IF r.ret # NULL THEN held \cup {r.ret} ELSE held
            /\ net' = IF pure /\ r.ret # NULL THEN net - 1 ELSE net
            /\ UNCHANGED <<head, pure>>

\* q_release_element(e) on an element the caller got from a remove
QReleaseElement ==
    \E e \in held :
        /\ Call("q_release_element", q_release_element(heap, e), Void, NoOut, NoValue)
        /\ held' = held \ {e}
        /\ UNCHANGED <<head, net, pure>>

QSize ==
    /\ Call("q_size", heap, q_size(heap, head), NoOut, NoValue)
    /\ UNCHANGED <<head, held, net, pure>>

\* The calls below leave the insert / remove history of the queue.
LeavesHistory ==
    /\ net' = 0
    /\ pure' = (head = NULL)
    /\ UNCHANGED <<head, held>>

QDeleteMid ==
    /\ Call("q_delete_mid", q_delete_mid(heap, head).hp,
            q_delete_mid(heap, head).ret, NoOut, NoValue)
    /\ LeavesHistory

QDeleteDup ==
    /\ Call("q_delete_dup", q_delete_dup(heap, head).hp,
            q_delete_dup(heap, head).ret, NoOut, NoValue)
    /\ LeavesHistory

QSwap ==
    /\ Call("q_swap", q_swap(heap, head), Void, NoOut, NoValue)
    /\ LeavesHistory

QReverse ==
    /\ Call("q_reverse", q_reverse(heap, head), Void, NoOut, NoValue)
    /\ LeavesHistory

QSort ==
    /\ Call("q_sort", q_sort(heap, head), Void, NoOut, NoValue)
    /\ LeavesHistory

Next ==
    \/ QNew
    \/ QFree
    \/ QInsertHead
    \/ QInsertTail
    \/ QRemoveHead
    \/ QRemoveTail
    \/ QReleaseElement
    \/ QSize
    \/ QDeleteMid
    \/ QDeleteDup
    \/ QSwap
    \/ QReverse
    \/ QSort

Spec == Init /\ [][Next]_vars

\* ------------------------------------------------------------------------
\* The algorithms on their own: any ring q_new and q_insert_tail can build,
\* of up to MaxNodes elements (or no queue at all, q_new having failed), and
\* then the calls that rearrange or delete.
EmptyHeap ==
    [next |-> [n \in Nodes |-> Undef], prev |-> [n \in Nodes |-> Undef],
     value |-> [e \in Elems |-> NoValue], alloc |-> {}, fault |-> {}]

RECURSIVE Built(_, _)
Built(q, v) ==
    IF v = <<>> THEN q_new(EmptyHeap, q)
    ELSE q_insert_tail(Built(q, SubSeq(v, 1, Len(v) - 1)), q,
                       v[Len(v)], Len(v), TRUE).hp

InitAlg ==
    \E q \in {QHead, NULL}, n \in 0 .. MaxNodes : \E v \in [1 .. n -> AlgStrs] :
        /\ q = NULL => n = 0
        /\ head = q
        /\ next = Built(q, v).next
        /\ prev = Built(q, v).prev
        /\ value = Built(q, v).value
        /\ alloc = Built(q, v).alloc
        /\ fault = Built(q, v).fault
        /\ held = {}
        /\ op = "init"
        /\ ret = Void
        /\ out = NoOut
        /\ arg = NoValue
        /\ pre = <<>>
        /\ prevals = <<>>
        /\ net = n
        /\ pure = TRUE

NextAlg ==
    \/ QDeleteMid
    \/ QDeleteDup
    \/ QSwap
    \/ QReverse
    \/ QSort

SpecAlg == InitAlg /\ [][NextAlg]_vars

\* ------------------------------------------------------------------------
\* The copy into the caller's buffer on its own: any ring as above, and the
\* two removes called with anything their signature admits, a bufsize of 0
\* included.  Once a call has written outside the buffer the behaviour of
\* the program is undefined, and no further call is modelled.
AnyBuffers == [sp : BOOLEAN, bufsize : 0 .. MaxBuf]

QRemoveHeadAny ==
    /\ ~out.oob
    /\ \E b \in AnyBuffers :
        LET r == q_remove_head(heap, head, b.sp, b.bufsize)
        IN  /\ Call("q_remove_head", r.hp, r.ret, r.out, NoValue)
            /\ held' = IF r.ret # NULL THEN held \cup {r.ret} ELSE held
            /\ net' = IF pure /\ r.ret # NULL THEN net - 1 ELSE net
            /\ UNCHANGED <<head, pure>>

QRemoveTailAny ==
    /\ ~out.oob
    /\ \E b \in AnyBuffers :
        LET r == q_remove_tail(heap, head, b.sp, b.bufsize)
        IN  /\ Call("q_remove_tail", r.hp, r.ret, r.out, NoValue)
            /\ held' = IF r.ret # NULL THEN held \cup {r.ret} ELSE held
            /\ net' = IF pure /\ r.ret # NULL THEN net - 1 ELSE net
            /\ UNCHANGED <<head, pure>>

NextCopy ==
    \/ QRemoveHeadAny
    \/ QRemoveTailAny

SpecCopy == InitAlg /\ [][NextCopy]_vars

\* ------------------------------------------------------------------------
\* Vocabulary of the properties.
Linked == Range(Ring)
Live == alloc \cap Elems

RECURSIVE WalkBack(_, _, _, _)
WalkBack(hp, h, p, fuel) ==
    IF p = h \/ p \notin Nodes \/ fuel = 0 THEN <<>>
    ELSE <<p>> \o WalkBack(hp, h, hp.prev[p], fuel - 1)
RingBack == IF head = NULL THEN <<>> ELSE WalkBack(heap, head, LdPrev(heap, head), Fuel)

NoRepeat(s) == \A i, j \in 1 .. Len(s) : i # j => s[i] # s[j]
Reverse(s) == [i \in 1 .. Len(s) |-> s[Len(s) + 1 - i]]
RemoveAt(s, k) == [i \in 1 .. Len(s) - 1 |-> IF i < k THEN s[i] ELSE s[i + 1]]
Ascending(v) == \A i \in 1 .. Len(v) - 1 : strcmp(v[i], v[i + 1]) <= 0
PosIn(s, e) == CHOOSE i \in 1 .. Len(s) : s[i] = e
Payloads == Values(heap, Ring)

\* C1: whenever a queue exists between two calls, every node reachable from
\* the sentinel (the sentinel included) has n.next.prev = n and n.prev.next
\* = n, and following next from the sentinel comes back to the sentinel
\* after visiting every element the queue owns exactly once.
C1_RingWellFormed ==
    head # NULL =>
        /\ \A n \in {head} \cup Linked :
            /\ LdPrev(heap, LdNext(heap, n)) = n
            /\ LdNext(heap, LdPrev(heap, n)) = n
        /\ LdNext(heap, IF Ring = <<>> THEN head ELSE Ring[Len(Ring)]) = head
        /\ NoRepeat(Ring)
        /\ Linked = Live \ held
        /\ RingBack = Reverse(Ring)

C1_Witness ==
    /\ op = "q_sort"
    /\ Len(pre) = 3
    /\ Ring # pre

\* C2: every element is in exactly one of three states: linked in the ring,
\* unlinked and held by the caller, or freed; nothing is freed twice; no
\* freed element is reachable from the sentinel by next or by prev; and
\* q_free frees the sentinel and every element that was linked, and leaves
\* the elements the caller holds allocated with their payloads.
C2_SingleOwnership ==
    /\ "double free" \notin fault
    /\ \A e \in Elems :
        /\ (e \in Linked) \/ (e \in held) \/ (e \notin alloc)
        /\ ~(e \in Linked /\ e \in held)
        /\ ~(e \in Linked /\ e \notin alloc)
        /\ ~(e \in held /\ e \notin alloc)
        /\ e \in alloc <=> value[e] # NoValue
    /\ Range(RingBack) \subseteq alloc
    /\ head # NULL <=> QHead \in alloc
    /\ op = "q_free" =>
        /\ Range(pre) \cap alloc = {}
        /\ Live = held
        /\ \A e \in held : value[e] \in Strs

C2_Witness ==
    /\ op = "q_free"
    /\ Len(pre) >= 2
    /\ held # {}

\* C3: as long as only q_insert_head, q_insert_tail, q_remove_head and
\* q_remove_tail have changed the queue, q_size returns the number of
\* inserts that returned true minus the number of removes that returned an
\* element, and that is the number of elements in the ring.
C3_SizeIsInsertsMinusRemoves ==
    pure =>
        /\ q_size(heap, head) = net
        /\ net = Cardinality(Live \ held)
        /\ net = Len(Ring)
        /\ op = "q_size" => ret = net

C3_Witness ==
    /\ op = "q_size"
    /\ pure
    /\ ret = 2
    /\ held # {}

\* C4: q_delete_mid on a ring of n >= 1 elements returns true and removes
\* and frees the element at 0-based index floor(n / 2), the others staying
\* linked in order; on an empty ring or without a queue it returns false
\* and the ring is as before.
C4_DeleteMidFloor ==
    op = "q_delete_mid" =>
        IF pre = <<>>
        THEN ret = FALSE /\ Ring = <<>>
        ELSE /\ ret = TRUE
             /\ Ring = RemoveAt(pre, (Len(pre) \div 2) + 1)
             /\ pre[(Len(pre) \div 2) + 1] \notin alloc

\* C5: after q_sort the payloads, read first to last, are ascending under
\* strcmp, and the ring holds the same elements as before, each once, with
\* the payloads they had.
C5_SortAscendingPermutation ==
    op = "q_sort" =>
        /\ Ascending(Payloads)
        /\ Linked = Range(pre)
        /\ Len(Ring) = Len(pre)
        /\ NoRepeat(Ring)
        /\ Values(heap, pre) = prevals

C5_Witness ==
    /\ op = "q_sort"
    /\ Len(pre) >= 4
    /\ Ring = Reverse(pre)
    /\ Payloads[1] # Payloads[Len(Ring)]

\* C6: q_sort is stable: two elements with equal payloads are in the same
\* relative order after q_sort as before it.
C6_SortStable ==
    op = "q_sort" =>
        \A i, j \in 1 .. Len(pre) :
            (i < j /\ pre[i] \in Linked /\ pre[j] \in Linked
                   /\ value[pre[i]] = value[pre[j]])
                => PosIn(Ring, pre[i]) < PosIn(Ring, pre[j])

\* C7: q_delete_dup on a ring sorted ascending returns true, leaves linked
\* exactly the elements whose payload occurred once, in their order and
\* with their payloads, and frees every other element; on an empty ring it
\* returns true and changes nothing; it returns false only when there is
\* no queue.
Occurrences(v, s) == Cardinality({i \in 1 .. Len(v) : v[i] = s})
SingletonsAt(v) == {i \in 1 .. Len(v) : Occurrences(v, v[i]) = 1}

C7_DeleteDupSorted ==
    (op = "q_delete_dup" /\ Ascending(prevals)) =>
        /\ ret = (head # NULL)
        /\ Linked = {pre[i] : i \in SingletonsAt(prevals)}
        /\ \A i, j \in SingletonsAt(prevals) :
            i < j => PosIn(Ring, pre[i]) < PosIn(Ring, pre[j])
        /\ \A i \in SingletonsAt(prevals) : value[pre[i]] = prevals[i]
        /\ \A e \in Range(pre) \ Linked : e \notin alloc /\ value[e] = NoValue
        /\ NoRepeat(Ring)
        /\ fault = {}
        /\ pre = <<>> =>
            /\ Live = held
            /\ head # NULL => LdNext(heap, head) = head /\ LdPrev(heap, head) = head

C7_Witness ==
    /\ op = "q_delete_dup"
    /\ ret = TRUE
    /\ Ascending(prevals)
    /\ Len(pre) = 4
    /\ Ring = <<pre[1], pre[4]>>

\* C8: q_swap exchanges the elements of every pair of positions (2i, 2i+1)
\* that lies in the ring and leaves the last element of a ring of odd
\* length, and a ring of fewer than two elements, where they were.
C8_SwapPairs ==
    op = "q_swap" =>
        /\ Len(Ring) = Len(pre)
        /\ \A k \in 1 .. Len(pre) :
            Ring[k] = IF k % 2 = 1 /\ k + 1 <= Len(pre) THEN pre[k + 1]
                      ELSE IF k % 2 = 0 THEN pre[k - 1]
                      ELSE pre[k]

C8_Witness ==
    /\ op = "q_swap"
    /\ Len(pre) = 4
    /\ Ring = <<pre[2], pre[1], pre[4], pre[3]>>

\* C9: q_reverse leaves the elements in the reverse of the order they had,
\* and q_reverse applied twice gives back every next and prev pointer, the
\* sentinel's included.
C9_ReverseInvolution ==
    /\ op = "q_reverse" => Ring = Reverse(pre)
    /\ q_reverse(q_reverse(heap, head), head) = heap

C9_Witness ==
    /\ op = "q_reverse"
    /\ Len(pre) >= 3
    /\ Ring # pre

\* C10: a step of q_remove_head (q_remove_tail) on a ring that is not empty
\* returns the first (last) element, unlinked, still allocated with its
\* payload, now held by the caller, the other elements linked in the order
\* they had; without a queue or on an empty ring it returns NULL and
\* changes nothing.
RemoveEffect(e, rest) ==
    /\ ret' = e
    /\ e \in alloc'
    /\ Ring' = rest
    /\ alloc' = alloc
    /\ value' = value
    /\ held' = held \cup {e}
    /\ fault' = fault

RemoveNothing ==
    /\ ret' = NULL
    /\ heap' = heap
    /\ held' = held

C10_RemoveUnlinksOnly ==
    [][/\ op' = "q_remove_head" =>
            IF head = NULL \/ Ring = <<>> THEN RemoveNothing
            ELSE RemoveEffect(Ring[1], Tail(Ring))
       /\ op' = "q_remove_tail" =>
            IF head = NULL \/ Ring = <<>> THEN RemoveNothing
            ELSE RemoveEffect(Ring[Len(Ring)], SubSeq(Ring, 1, Len(Ring) - 1))]_vars

C10_Witness ==
    /\ op = "q_remove_tail"
    /\ Len(pre) = 3
    /\ ret = pre[3]
    /\ Ring = <<pre[1], pre[2]>>

\* C11: an insert that succeeds returns true and links one element that was
\* not allocated before, holding its own copy of the bytes of s, as the
\* first node after the sentinel (q_insert_head) or the last node before it
\* (q_insert_tail); the elements linked before stay linked in the order
\* they had, with the payloads they had, and nothing else is allocated.
InsertOutcome(r, e, s, ring) ==
    /\ r.ret = TRUE
    /\ e \notin alloc
    /\ r.hp.alloc = alloc \cup {e}
    /\ RingOf(r.hp, head) = ring
    /\ r.hp.value = [value EXCEPT ![e] = s]
    /\ r.hp.fault = fault

C11_InsertLinksCopy ==
    /\ (op = "q_insert_head" /\ ret = TRUE) =>
        /\ Ring = <<Ring[1]>> \o pre
        /\ Ring[1] \notin Range(pre) \cup held
        /\ value[Ring[1]] = arg
        /\ Values(heap, pre) = prevals
    /\ (op = "q_insert_tail" /\ ret = TRUE) =>
        /\ Ring = pre \o <<Ring[Len(Ring)]>>
        /\ Ring[Len(Ring)] \notin Range(pre) \cup held
        /\ value[Ring[Len(Ring)]] = arg
        /\ Values(heap, pre) = prevals
    /\ (head # NULL /\ FirstFree # NULL) =>
        \A s \in Strs :
            /\ InsertOutcome(q_insert_head(heap, head, s, FirstFree, TRUE),
                             FirstFree, s, <<FirstFree>> \o Ring)
            /\ InsertOutcome(q_insert_tail(heap, head, s, FirstFree, TRUE),
                             FirstFree, s, Ring \o <<FirstFree>>)

C11_Witness ==
    /\ op = "q_insert_tail"
    /\ ret = TRUE
    /\ Len(pre) = 2
    /\ Ring = pre \o <<Ring[3]>>
    /\ arg = <<97, 98>>

\* C12: when malloc of the element or strdup of the payload fails,
\* q_insert_head and q_insert_tail return false and leave every next and
\* prev pointer, every payload and the set of allocated blocks as they
\* were: nothing half-built is linked and the block the call allocated has
\* been freed.
FailedInsert(r) == r = [hp |-> heap, ret |-> FALSE]

C12_FailedInsertRollsBack ==
    /\ (op \in {"q_insert_head", "q_insert_tail"} /\ ret = FALSE) =>
        /\ Ring = pre
        /\ Payloads = prevals
        /\ Linked = Live \ held
        /\ fault = {}
    /\ head # NULL =>
        \A s \in Strs :
            /\ FailedInsert(q_insert_head(heap, head, s, NULL, FALSE))
            /\ FailedInsert(q_insert_tail(heap, head, s, NULL, FALSE))
            /\ FirstFree # NULL =>
                /\ FailedInsert(q_insert_head(heap, head, s, FirstFree, FALSE))
                /\ FailedInsert(q_insert_tail(heap, head, s, FirstFree, FALSE))

C12_Witness ==
    /\ op = "q_insert_head"
    /\ ret = FALSE
    /\ head # NULL
    /\ FirstFree # NULL
    /\ Len(pre) = 2
    /\ Ring = pre

\* C13: called without a queue (head NULL), every function returns its
\* no-op result and writes nothing, allocates nothing and frees nothing,
\* whatever else the heap holds: the inserts, q_delete_mid and q_delete_dup
\* return false, the removes return NULL and leave the buffer alone,
\* q_size returns 0, and q_free, q_swap, q_reverse and q_sort return with
\* the heap as it was.
C13_NullQueueNoOp ==
    /\ \A s \in Strs, node \in {NULL, FirstFree}, dup_ok \in BOOLEAN :
        /\ q_insert_head(heap, NULL, s, node, dup_ok) = [hp |-> heap, ret |-> FALSE]
        /\ q_insert_tail(heap, NULL, s, node, dup_ok) = [hp |-> heap, ret |-> FALSE]
    /\ \A b \in Buffers :
        /\ q_remove_head(heap, NULL, b.sp, b.bufsize)
               = [hp |-> heap, ret |-> NULL, out |-> NoOut]
        /\ q_remove_tail(heap, NULL, b.sp, b.bufsize)
               = [hp |-> heap, ret |-> NULL, out |-> NoOut]
    /\ q_size(heap, NULL) = 0
    /\ q_delete_mid(heap, NULL) = [hp |-> heap, ret |-> FALSE]
    /\ q_delete_dup(heap, NULL) = [hp |-> heap, ret |-> FALSE]
    /\ q_free(heap, NULL) = heap
    /\ q_swap(heap, NULL) = heap
    /\ q_reverse(heap, NULL) = heap
    /\ q_sort(heap, NULL) = heap
    /\ head = NULL =>
        /\ op \in {"q_insert_head", "q_insert_tail", "q_delete_mid", "q_delete_dup"}
               => ret = FALSE
        /\ op \in {"q_remove_head", "q_remove_tail"} => ret = NULL /\ out = NoOut
        /\ op = "q_size" => ret = 0
        /\ Ring = <<>>
        /\ Live = held
        /\ fault = {}

C13_Witness ==
    /\ head = NULL
    /\ op = "q_delete_dup"
    /\ ret = FALSE
    /\ held # {}

\* C14: q_reverse, q_swap and q_sort only relink: after each of them the
\* same blocks are allocated, the same elements are linked in the ring, every
\* element has the payload it had, the elements the caller holds are as
\* they were, and nothing was allocated or freed.
OnlyRelinks(hp) ==
    /\ hp.alloc = alloc
    /\ hp.value = value
    /\ hp.fault = fault
    /\ Range(RingOf(hp, head)) = Linked
    /\ Len(RingOf(hp, head)) = Len(Ring)
    /\ \A e \in Nodes \ ({head} \cup Linked) :
        hp.next[e] = next[e] /\ hp.prev[e] = prev[e]

C14_RearrangeOnlyRelinks ==
    /\ OnlyRelinks(q_reverse(heap, head))
    /\ OnlyRelinks(q_swap(heap, head))
    /\ OnlyRelinks(q_sort(heap, head))
    /\ op \in {"q_reverse", "q_swap", "q_sort"} =>
        /\ Linked = Range(pre)
        /\ Len(Ring) = Len(pre)
        /\ Values(heap, pre) = prevals
        /\ Linked = Live \ held
        /\ \A e \in held : value[e] \in Strs

C14_Witness ==
    /\ op = "q_swap"
    /\ Len(pre) = 2
    /\ Ring = <<pre[2], pre[1]>>
    /\ prevals[1] # prevals[2]
    /\ held # {}

\* C15: q_delete_dup on a ring whose payloads are not sorted still leaves a
\* well-formed ring (n.next.prev = n and n.prev.next = n at the sentinel and
\* at every linked element, the walk closing at the sentinel) and leaks
\* nothing: every element it took out of the ring has been freed, and every
\* element still allocated is linked in the ring.
C15_DeleteDupUnsortedSafe ==
    (op = "q_delete_dup" /\ ~Ascending(prevals)) =>
        /\ ret = TRUE
        /\ fault = {}
        /\ \A n \in {head} \cup Linked :
            /\ LdPrev(heap, LdNext(heap, n)) = n
            /\ LdNext(heap, LdPrev(heap, n)) = n
        /\ LdNext(heap, IF Ring = <<>> THEN head ELSE Ring[Len(Ring)]) = head
        /\ NoRepeat(Ring)
        /\ RingBack = Reverse(Ring)
        /\ Linked \subseteq Range(pre)
        /\ \A e \in Range(pre) \ Linked : e \notin alloc /\ value[e] = NoValue
        /\ Live = Linked
        /\ \A e \in Linked : value[e] \in AlgStrs

C15_Witness ==
    /\ op = "q_delete_dup"
    /\ ~Ascending(prevals)
    /\ Len(pre) = 4
    /\ Ring = <<pre[1], pre[4]>>

\* C16: when a remove returns an element and was given a buffer of
\* capacity c, then for every c and every payload the buffer holds the
\* first min(len, c - 1) bytes of the payload and then a terminator, and no
\* byte outside the buffer was written.
Min(a, b) == IF a <= b THEN a ELSE b

C16_CopyOutBounded ==
    (op \in {"q_remove_head", "q_remove_tail"} /\ ret # NULL /\ out.given) =>
        LET c == Len(out.bytes)
            k == Min(Len(value[ret]), c - 1)
        IN  /\ ~out.oob
            /\ c >= 1
            /\ \A i \in 1 .. k : out.bytes[i] = value[ret][i]
            /\ out.bytes[k + 1] = 0

\* C17: q_sort on a ring whose payloads are already ascending, repeated
\* values included, leaves the sequence of payloads read first to last as it
\* was; so q_sort twice gives the payload sequence q_sort once gives.
PayloadsOf(hp) == Values(hp, RingOf(hp, head))

C17_SortIdempotent ==
    /\ (op = "q_sort" /\ Ascending(prevals)) => Payloads = prevals
    /\ op = "q_sort" => PayloadsOf(q_sort(heap, head)) = Payloads

C17_Witness ==
    /\ op = "q_sort"
    /\ Ascending(prevals)
    /\ Len(pre) = 4
    /\ prevals[2] = prevals[3]
    /\ prevals[1] # prevals[4]
    /\ Payloads = prevals

\* C18: a q_insert_head(x) that succeeded, followed at once by
\* q_remove_head, gives back an element whose payload is x, and the ring and
\* q_size are then what they were before the insert; likewise
\* q_insert_tail followed at once by q_remove_tail.
RoundTrip ==
    /\ ret' # NULL
    /\ ret' \in alloc'
    /\ value'[ret'] = arg
    /\ Ring' = pre
    /\ Values(heap', Ring') = prevals
    /\ q_size(heap', head') = Len(pre)

C18_InsertRemoveRoundTrip ==
    [][/\ (op = "q_insert_head" /\ ret = TRUE /\ op' = "q_remove_head") => RoundTrip
       /\ (op = "q_insert_tail" /\ ret = TRUE /\ op' = "q_remove_tail") => RoundTrip]_vars

C18_Witness ==
    /\ op = "q_insert_head"
    /\ ret = TRUE
    /\ Len(pre) = 2
    /\ arg = <<97, 98>>
    /\ prevals[1] = <<97>>
    /\ q_remove_head(heap, head, FALSE, 0).ret = Ring[1]

\* C19: on a well-formed ring every function comes to its end: no loop and
\* no recursion runs on.  The loop of q_delete_mid stops for odd and for
\* even lengths with the forward pointer on an element of the first half:
\* the pointers have met (odd) or are adjacent (even) and have not passed
\* each other.  The do-while of q_swap stops for every length from 2, the
\* loop of q_reverse comes back to the sentinel, and mergesort comes down to
\* sublists of one node.
NoRunaway(hp) == "no termination" \notin hp.fault

MidStops ==
    LET n == Len(Ring)
        l == mid_loop(heap, LdNext(heap, head), LdPrev(heap, head), Fuel)
        rev == Ring[n - (n - 1) \div 2]
    IN  /\ NoRunaway(l.hp)
        /\ l.ptr = Ring[(n - 1) \div 2 + 1]
        /\ IF n % 2 = 1 THEN rev = l.ptr ELSE rev = LdNext(heap, l.ptr)

C19_OperationsTerminate ==
    /\ NoRunaway(heap)
    /\ op \in {"q_delete_mid", "q_delete_dup", "q_swap", "q_reverse", "q_sort"}
           => fault = {}
    /\ NoRunaway(q_free(heap, head))
    /\ q_size(heap, head) = Len(Ring)
    /\ Ring # <<>> => MidStops

C19_Witness ==
    /\ op = "q_delete_mid"
    /\ ret = TRUE
    /\ Len(pre) = 4
    /\ Len(Ring) = 3
    /\ fault = {}

\* C20: whatever the ring holds, sorted or not, q_delete_dup removes and
\* frees exactly the elements of the maximal runs of two or more adjacent
\* elements with equal payloads: an element goes if and only if its payload
\* equals that of the element just before it or just after it in the ring;
\* every other element stays, in the order and with the payload it had.
InRun(v, i) ==
    \/ i > 1 /\ strcmp(v[i - 1], v[i]) = 0
    \/ i < Len(v) /\ strcmp(v[i], v[i + 1]) = 0
KeptAt(v) == {i \in 1 .. Len(v) : ~InRun(v, i)}

C20_DeleteDupAdjacentRuns ==
    (op = "q_delete_dup" /\ head # NULL) =>
        /\ ret = TRUE
        /\ fault = {}
        /\ NoRepeat(Ring)
        /\ Linked = {pre[i] : i \in KeptAt(prevals)}
        /\ \A i, j \in KeptAt(prevals) :
            i < j => PosIn(Ring, pre[i]) < PosIn(Ring, pre[j])
        /\ \A i \in KeptAt(prevals) : value[pre[i]] = prevals[i]
        /\ \A i \in 1 .. Len(pre) :
            InRun(prevals, i) => pre[i] \notin alloc /\ value[pre[i]] = NoValue

C20_Witness ==
    /\ op = "q_delete_dup"
    /\ Len(pre) = 4
    /\ prevals[1] = prevals[3]
    /\ prevals[3] = prevals[4]
    /\ prevals[2] # prevals[1]
    /\ Ring = <<pre[1], pre[2]>>

====
